---- MODULE Spec2Model ----
(***************************************************************************)
(* A model of the C-SHELPh command line (bin/run_bathy_extraction.py,      *)
(* main) and of the pipeline orchestrator (cshelph/run_cshelph.py,         *)
(* run_cshelph).  One action per statement group of the two functions;     *)
(* calls into cshelph.cshelph, numpy, pandas and matplotlib are steps      *)
(* whose result is an input and which may raise.                           *)
(***************************************************************************)
EXTENDS Integers, Sequences, FiniteSets, TLC

VARIABLES
    pc,                 \* position in main / run_cshelph
    args,               \* argparse namespace (main, line 121)
    track,              \* what the ingestion / interpolation collaborators deliver
    lat_utm, lon_utm, photon_h, conf,            \* photon arrays
    ph_ref_elev, ph_ref_azimuth, ph_sat_alt,     \* geometry arrays
    dataset_sea,        \* assembled photon table (line 150)
    dataset_sea1,       \* filtered table (lines 175-189)
    sea_height,         \* per-latitude-band candidates (line 203)
    med_water_surface_h,\* sea-surface estimate (line 206)
    water_temp,         \* local water_temp of run_cshelph
    lookup,             \* history: outcome of get_water_temp, if called
    ref_z,              \* corrected heights (line 220)
    depth,              \* line 236
    binned_data,        \* bathymetric bins (line 263)
    idx,                \* position of the for loop over threshlist (line 290)
    stages,             \* history: stages completed, in order
    classified,         \* history: calls of get_bath_height
    figures,            \* history: calls of produce_figures
    refr_call,          \* history: arguments of refraction_correction
    exc,                \* exception in flight or handled ("" = none)
    out                 \* what main printed

vars == << pc, args, track, lat_utm, lon_utm, photon_h, conf, ph_ref_elev,
           ph_ref_azimuth, ph_sat_alt, dataset_sea, dataset_sea1, sea_height,
           med_water_surface_h, water_temp, lookup, ref_z, depth, binned_data, idx,
           stages, classified, figures, refr_call, exc, out >>

----------------------------------------------------------------------------
(* Bounds of the model *)

MaxLen == 3         \* longest input array
MaxRows == 2        \* longest table of freely chosen photons
MaxCand == 2        \* most sea-surface candidates
MaxSweep == 2       \* longest threshold list

----------------------------------------------------------------------------
(* Values *)

\* Python None / a present value
None == [some |-> FALSE, v |-> 0]
Some(x) == [some |-> TRUE, v |-> x]
NoneList == [some |-> FALSE, v |-> << >>]

\* floating point: a number or NaN
NaN == [nan |-> TRUE, v |-> 0]
Num(x) == [nan |-> FALSE, v |-> x]

Min(a, b) == IF a <= b THEN a ELSE b

\* a slice that keeps the last k elements, s[-k:], instead of the first
SliceTail(s, k) == SubSeq(s, Len(s) - Min(k, Len(s)) + 1, Len(s))

\* Python slice s[0:k]
Slice(s, k) == SubSeq(s, 1, Min(k, Len(s)))

----------------------------------------------------------------------------
(* int(thresh) on a command-line token (line 293).  A token is the sequence
   of its characters; int() raises ValueError unless all are digits. *)

DigitVal(c) ==
    CASE c = "0" -> 0 [] c = "1" -> 1 [] c = "2" -> 2 [] c = "3" -> 3
      [] c = "4" -> 4 [] c = "5" -> 5 [] c = "6" -> 6 [] c = "7" -> 7
      [] c = "8" -> 8 [] c = "9" -> 9 [] OTHER -> -1

IsIntToken(s) == Len(s) > 0 /\ \A i \in 1..Len(s) : DigitVal(s[i]) >= 0

RECURSIVE IntOf(_)
IntOf(s) == IF s = << >> THEN 0
            ELSE 10 * IntOf(SubSeq(s, 1, Len(s) - 1)) + DigitVal(s[Len(s)])

----------------------------------------------------------------------------
(* Length checks and reconciliation (lines 112-145) *)

\* the condition of the first raise (lines 116-120)
PhotonCheckRaises(lat_len, lon_len, h_len, conf_len) ==
    (lat_len # lon_len) /\ (conf_len # lon_len) /\ (conf_len # h_len)

\* the condition of the second raise (lines 127-129)
GeometryCheckRaises(elev_len, azi_len, alt_len) ==
    (elev_len # azi_len) /\ (azi_len # alt_len)

\* pandas.DataFrame from a dict of arrays: all of one length, or ValueError
SameLength(cols) == \A i, j \in 1..Len(cols) : Len(cols[i]) = Len(cols[j])

\* the rows of the table assembled at lines 150-169
Assemble(la, lo, h, c, e, az, al) ==
    [i \in 1..Len(la) |->
        [latitude |-> la[i], longitude |-> lo[i], photon_height |-> h[i],
         confidence |-> c[i], ref_elevation |-> e[i], ref_azminuth |-> az[i],
         ref_sat_alt |-> al[i]]]

----------------------------------------------------------------------------
(* Filtering (lines 175-189) *)

RECURSIVE SelectRows(_, _)
\* boolean-mask indexing of a table: the rows whose mask is TRUE, in order
SelectRows(t, mask) ==
    IF t = << >> THEN << >>
    ELSE (IF mask[1] THEN << t[1] >> ELSE << >>)
         \o SelectRows(Tail(t), Tail(mask))

\* pandas: a comparison of a numeric column with None is False in every row
GtOpt(x, bound) == bound.some /\ x > bound.v
LtOpt(x, bound) == bound.some /\ x < bound.v

ConfidenceFilter(t) ==
    SelectRows(t, [i \in 1..Len(t) |->
        (t[i].confidence # 0) /\ (t[i].confidence # 1)])

HeightFilter(t, min_buffer, max_buffer) ==
    SelectRows(t, [i \in 1..Len(t) |->
        (t[i].photon_height > min_buffer) /\ (t[i].photon_height < max_buffer)])

LatitudeFilter(t, start_lat, end_lat) ==
    IF start_lat.some
    THEN SelectRows(t, [i \in 1..Len(t) |->
            GtOpt(t[i].latitude, start_lat) /\ LtOpt(t[i].latitude, end_lat)])
    ELSE t

FilterTable(t, min_buffer, max_buffer, start_lat, end_lat) ==
    LatitudeFilter(HeightFilter(ConfidenceFilter(t), min_buffer, max_buffer),
                   start_lat, end_lat)

----------------------------------------------------------------------------
(* Sea surface and depth (lines 206, 236) *)

RECURSIVE DropNaN(_)
DropNaN(s) == IF s = << >> THEN << >>
              ELSE (IF s[1].nan THEN << >> ELSE << s[1].v >>) \o DropNaN(Tail(s))

RECURSIVE Insert(_, _)
Insert(x, s) == IF s = << >> THEN << x >>
                ELSE IF x <= s[1] THEN << x >> \o s
                ELSE << s[1] >> \o Insert(x, Tail(s))

RECURSIVE Sort(_)
Sort(s) == IF s = << >> THEN << >> ELSE Insert(s[1], Sort(Tail(s)))

\* a median that answers 0 when nothing is left
nanmedian_zero(s) ==
    LET v == Sort(DropNaN(s))
        n == Len(v)
    IN  IF n = 0 THEN Num(0)
        ELSE IF n % 2 = 1 THEN Num(v[(n + 1) \div 2])
        ELSE Num((v[n \div 2] + v[n \div 2 + 1]) \div 2)

\* numpy.nanmedian: NaN entries are ignored; nothing left gives NaN (with a
\* RuntimeWarning, not an exception); an even count gives the mean of the two
\* central values.  Candidate heights are even integers, so the mean is exact.
nanmedian(s) ==
    LET v == Sort(DropNaN(s))
        n == Len(v)
    IN  IF n = 0 THEN NaN
        ELSE IF n % 2 = 1 THEN Num(v[(n + 1) \div 2])
        ELSE Num((v[n \div 2] + v[n \div 2 + 1]) \div 2)

\* float subtraction: NaN propagates
FSub(a, b) == IF a.nan \/ b.nan THEN NaN ELSE Num(a.v - b.v)

\* depth = med_water_surface_h - ref_z (line 236), elementwise
Depth(surface, z) == [i \in 1..Len(z) |-> FSub(surface, z[i])]

\* refraction_correction's corrected height of one photon: photons below the
\* surface are rescaled towards it, the others pass through unchanged
RefractZ(h, surface) ==
    IF ~surface.nan /\ h < surface.v
    THEN Num(surface.v - ((surface.v - h) * 3) \div 4)
    ELSE Num(h)

----------------------------------------------------------------------------
(* Steps.  Raise(e) is an exception raised inside the try block of
   run_cshelph (lines 68-312). *)

inputs   == << args, track >>
photon   == << lat_utm, lon_utm, photon_h, conf >>
geometry == << ph_ref_elev, ph_ref_azimuth, ph_sat_alt >>
tables   == << dataset_sea, dataset_sea1 >>
surface  == << sea_height, med_water_surface_h >>
refract  == << ref_z, depth, refr_call >>
sweep    == << idx, classified, figures >>
temp     == << water_temp, lookup >>

Raise(e) == pc' = "except" /\ exc' = e

\* main, lines 121-140: the threshold check, the banner, the call
main ==
    /\ pc = "main"
    /\ IF (~args.thresh.some) /\ (~args.threshlist.some)
       THEN /\ pc' = "uncaught"
            /\ exc' = "Must provide either a threshold percentage or a list"
            /\ UNCHANGED << out, water_temp >>
       ELSE /\ pc' = "read_atl03"
            /\ out' = [out EXCEPT !.banner = TRUE]
            /\ water_temp' = args.water_temp
            /\ UNCHANGED exc
    /\ UNCHANGED << inputs, photon, geometry, tables, surface, refract,
                    lookup, binned_data, sweep, stages >>

\* lines 80-95: ingestion, projection, orthometric correction
read_atl03 ==
    /\ pc = "read_atl03"
    /\ \E ok \in BOOLEAN :
         IF ok
         THEN /\ lat_utm' = track.lat
              /\ lon_utm' = track.lon
              /\ photon_h' = track.h
              /\ conf' = track.conf
              /\ stages' = Append(stages, "INGESTED")
              /\ pc' = "ref_linear_interp"
              /\ UNCHANGED exc
         ELSE /\ Raise("read_atl03")
              /\ UNCHANGED << photon, stages >>
    /\ UNCHANGED << inputs, geometry, tables, surface, refract, temp,
                    binned_data, sweep, out >>

\* lines 101-107: the three per-photon geometry fields
ref_linear_interp ==
    /\ pc = "ref_linear_interp"
    /\ \E ok \in BOOLEAN :
         IF ok
         THEN /\ ph_ref_elev' = track.elev
              /\ ph_ref_azimuth' = track.azi
              /\ ph_sat_alt' = track.alt
              /\ stages' = Append(stages, "GEOMETRY-INTERPOLATED")
              /\ pc' = "reconcile"
              /\ UNCHANGED exc
         ELSE /\ Raise("ref_linear_interp")
              /\ UNCHANGED << geometry, stages >>
    /\ UNCHANGED << inputs, photon, tables, surface, refract, temp,
                    binned_data, sweep, out >>

\* lines 112-145: the two length checks, then the truncation
reconcile ==
    /\ pc = "reconcile"
    /\ LET lat_utm_len == Len(lat_utm)
           ph_ref_elev_len == Len(ph_ref_elev)
       IN
       IF PhotonCheckRaises(lat_utm_len, Len(lon_utm), Len(photon_h), Len(conf))
       THEN /\ Raise("lat_utm, lon_utm and conf_len must have same length")
            /\ UNCHANGED << photon, geometry, stages >>
       ELSE IF GeometryCheckRaises(ph_ref_elev_len, Len(ph_ref_azimuth),
                                   Len(ph_sat_alt))
       THEN /\ Raise("ph_ref_elev, ph_ref_azimuth and ph_sat_alt must have same length")
            /\ UNCHANGED << photon, geometry, stages >>
       ELSE /\ IF ph_ref_elev_len > lat_utm_len
               THEN /\ ph_ref_elev' = Slice(ph_ref_elev, lat_utm_len)
                    /\ ph_ref_azimuth' = Slice(ph_ref_azimuth, lat_utm_len)
                    /\ ph_sat_alt' = Slice(ph_sat_alt, lat_utm_len)
                    /\ UNCHANGED photon
               ELSE IF lat_utm_len > ph_ref_elev_len
               THEN /\ lat_utm' = Slice(lat_utm, ph_ref_elev_len)
                    /\ lon_utm' = Slice(lon_utm, ph_ref_elev_len)
                    /\ photon_h' = Slice(photon_h, ph_ref_elev_len)
                    /\ conf' = Slice(conf, ph_ref_elev_len)
                    /\ UNCHANGED geometry
               ELSE UNCHANGED << photon, geometry >>
            /\ stages' = Append(stages, "RECONCILED")
            /\ pc' = "assemble"
            /\ UNCHANGED exc
    /\ UNCHANGED << inputs, tables, surface, refract, temp,
                    binned_data, sweep, out >>

\* lines 150-169: pandas.DataFrame of the seven arrays
assemble ==
    /\ pc = "assemble"
    /\ IF SameLength(<< lat_utm, lon_utm, photon_h, conf, ph_ref_elev,
                        ph_ref_azimuth, ph_sat_alt >>)
       THEN /\ dataset_sea' = Assemble(lat_utm, lon_utm, photon_h, conf,
                                       ph_ref_elev, ph_ref_azimuth, ph_sat_alt)
            /\ pc' = "filter"
            /\ UNCHANGED exc
       ELSE /\ Raise("All arrays must be of the same length")
            /\ UNCHANGED dataset_sea
    /\ UNCHANGED << inputs, photon, geometry, dataset_sea1, surface, refract,
                    temp, binned_data, sweep, stages, out >>

\* lines 175-189: confidence, elevation range, latitude range
filter ==
    /\ pc = "filter"
    /\ dataset_sea1' = FilterTable(dataset_sea, args.min_buffer,
                                   args.max_buffer, args.start_lat, args.end_lat)
    /\ stages' = Append(stages, "FILTERED")
    /\ pc' = "sea_bin"
    /\ UNCHANGED << inputs, photon, geometry, dataset_sea, surface, refract,
                    temp, binned_data, sweep, exc, out >>

\* line 195: first binning, of the filtered table
sea_bin ==
    /\ pc = "sea_bin"
    /\ \E ok \in BOOLEAN :
         IF ok
         THEN /\ stages' = Append(stages, "SEA-BINNED")
              /\ pc' = "get_sea_height"
              /\ UNCHANGED exc
         ELSE /\ Raise("bin_data")
              /\ UNCHANGED stages
    /\ UNCHANGED << inputs, photon, geometry, tables, surface, refract,
                    temp, binned_data, sweep, out >>

\* what get_sea_height may return: one candidate per latitude band, a number
\* or NaN, possibly none at all
Candidates == { NaN, Num(0), Num(2) }
CandidateLists == UNION { [1..n -> Candidates] : n \in 0..MaxCand }

\* lines 203-206: the candidates and their median
get_sea_height ==
    /\ pc = "get_sea_height"
    /\ \/ \E cands \in CandidateLists :
            /\ sea_height' = cands
            /\ med_water_surface_h' = nanmedian(cands)
            /\ stages' = Append(stages, "SURFACE-ESTIMATED")
            /\ pc' = "get_water_temp"
            /\ UNCHANGED exc
       \/ /\ Raise("get_sea_height")
          /\ UNCHANGED << surface, stages >>
    /\ UNCHANGED << inputs, photon, geometry, tables, refract, temp,
                    binned_data, sweep, out >>

DefaultWaterTemp == 20
LookupTemps == { 18 }

\* the lookup without the except clause: its exception ends the run
get_water_temp_unguarded ==
    /\ pc = "get_water_temp"
    /\ IF ~water_temp.some
       THEN \/ \E t \in LookupTemps :
                 /\ water_temp' = Some(t) /\ lookup' = "returned"
                 /\ pc' = "refraction_correction"
                 /\ UNCHANGED exc
            \/ /\ lookup' = "raised"
               /\ Raise("get_water_temp")
               /\ UNCHANGED water_temp
       ELSE /\ pc' = "refraction_correction"
            /\ UNCHANGED << water_temp, lookup, exc >>
    /\ UNCHANGED << inputs, photon, geometry, tables, surface, refract,
                    binned_data, sweep, stages, out >>

\* lines 209-216: the lookup happens only when no temperature was given,
\* and any exception of it is replaced by the default
get_water_temp ==
    /\ pc = "get_water_temp"
    /\ IF ~water_temp.some
       THEN \/ \E t \in LookupTemps :
                 water_temp' = Some(t) /\ lookup' = "returned"
            \/ water_temp' = Some(DefaultWaterTemp) /\ lookup' = "raised"
       ELSE UNCHANGED << water_temp, lookup >>
    /\ pc' = "refraction_correction"
    /\ UNCHANGED << inputs, photon, geometry, tables, surface, refract,
                    binned_data, sweep, stages, exc, out >>

\* lines 220-260: refraction correction, depth, the corrected table
refraction_correction ==
    /\ pc = "refraction_correction"
    /\ \E ok \in BOOLEAN :
         IF ok
         THEN /\ refr_call' = Append(refr_call,
                     [water_temp |-> water_temp.v,
                      water_surface |-> med_water_surface_h])
              /\ ref_z' = [i \in 1..Len(dataset_sea1) |->
                     RefractZ(dataset_sea1[i].photon_height, med_water_surface_h)]
              /\ depth' = Depth(med_water_surface_h, ref_z')
              /\ stages' = Append(stages, "REFRACTION-CORRECTED")
              /\ pc' = "bathy_bin"
              /\ UNCHANGED exc
         ELSE /\ Raise("refraction_correction")
              /\ UNCHANGED << refract, stages >>
    /\ UNCHANGED << inputs, photon, geometry, tables, surface, temp,
                    binned_data, sweep, out >>

\* line 263: second binning, of the corrected table
bathy_bin ==
    /\ pc = "bathy_bin"
    /\ \E ok \in BOOLEAN :
         IF ok
         THEN /\ binned_data' = [rows |-> Len(ref_z),
                                 pass |-> binned_data.pass + 1]
              /\ stages' = Append(stages, "BATHY-BINNED")
              /\ pc' = "classify"
              /\ UNCHANGED exc
         ELSE /\ Raise("bin_data")
              /\ UNCHANGED << binned_data, stages >>
    /\ UNCHANGED << inputs, photon, geometry, tables, surface, refract,
                    temp, sweep, out >>

\* one call of get_bath_height (lines 268, 292)
BathCall(th) == [thresh |-> th, binned_data |-> binned_data,
                 water_surface |-> med_water_surface_h]

\* lines 266-288: a single threshold
classify_single ==
    /\ pc = "classify"
    /\ args.thresh.some
    /\ \/ /\ Raise("get_bath_height")
          /\ UNCHANGED << classified, figures, stages >>
       \/ /\ classified' = Append(classified, BathCall(args.thresh.v))
          /\ \/ /\ Raise("produce_figures")
                /\ UNCHANGED << figures, stages >>
             \/ /\ figures' = Append(figures, args.thresh.v)
                /\ stages' = Append(stages, "CLASSIFIED")
                /\ pc' = "returned"
                /\ UNCHANGED exc
    /\ UNCHANGED << inputs, photon, geometry, tables, surface, refract,
                    temp, binned_data, idx, out >>

\* an iteration that bins the corrected table again for its threshold
classify_sweep_rebin ==
    /\ pc = "classify"
    /\ ~args.thresh.some
    /\ args.threshlist.some
    /\ idx <= Len(args.threshlist.v)
    /\ binned_data' = [binned_data EXCEPT !.pass = @ + 1]
    /\ LET thresh == args.threshlist.v[idx] IN
       IF ~IsIntToken(thresh)
       THEN /\ Raise("invalid literal for int()")
            /\ UNCHANGED << sweep, stages >>
       ELSE \/ /\ Raise("get_bath_height")
               /\ UNCHANGED << sweep, stages >>
            \/ /\ classified' = Append(classified,
                      [thresh |-> IntOf(thresh), binned_data |-> binned_data',
                       water_surface |-> med_water_surface_h])
               /\ \/ /\ Raise("produce_figures")
                     /\ UNCHANGED << idx, figures, stages >>
                  \/ /\ figures' = Append(figures, IntOf(thresh))
                     /\ stages' = Append(stages, "CLASSIFIED")
                     /\ idx' = idx + 1
                     /\ pc' = IF idx = Len(args.threshlist.v)
                              THEN "returned" ELSE "classify"
                     /\ UNCHANGED exc
    /\ UNCHANGED << inputs, photon, geometry, tables, surface, refract,
                    temp, out >>

\* lines 289-312: one iteration of the loop over threshlist
classify_sweep ==
    /\ pc = "classify"
    /\ ~args.thresh.some
    /\ args.threshlist.some
    /\ idx <= Len(args.threshlist.v)
    /\ LET thresh == args.threshlist.v[idx] IN
       IF ~IsIntToken(thresh)
       THEN /\ Raise("invalid literal for int()")
            /\ UNCHANGED << sweep, stages >>
       ELSE \/ /\ Raise("get_bath_height")
               /\ UNCHANGED << sweep, stages >>
            \/ /\ classified' = Append(classified, BathCall(IntOf(thresh)))
               /\ \/ /\ Raise("produce_figures")
                     /\ UNCHANGED << idx, figures, stages >>
                  \/ /\ figures' = Append(figures, IntOf(thresh))
                     /\ stages' = Append(stages, "CLASSIFIED")
                     /\ idx' = idx + 1
                     /\ pc' = IF idx = Len(args.threshlist.v)
                              THEN "returned" ELSE "classify"
                     /\ UNCHANGED exc
    /\ UNCHANGED << inputs, photon, geometry, tables, surface, refract,
                    temp, binned_data, out >>

\* lines 313-314: except Exception as e: raise e
run_cshelph_except ==
    /\ pc = "except"
    /\ pc' = "main_except"
    /\ UNCHANGED << inputs, photon, geometry, tables, surface, refract,
                    temp, binned_data, sweep, stages, exc, out >>

\* main, lines 155-158: the summary, and the trace in debug mode
main_except ==
    /\ pc = "main_except"
    /\ out' = [out EXCEPT !.summary = TRUE, !.trace = args.debug]
    /\ pc' = "returned"
    /\ UNCHANGED << inputs, photon, geometry, tables, surface, refract,
                    temp, binned_data, sweep, stages, exc >>

Next ==
    \/ main
    \/ read_atl03
    \/ ref_linear_interp
    \/ reconcile
    \/ assemble
    \/ filter
    \/ sea_bin
    \/ get_sea_height
    \/ get_water_temp
    \/ refraction_correction
    \/ bathy_bin
    \/ classify_single
    \/ classify_sweep
    \/ run_cshelph_except
    \/ main_except

----------------------------------------------------------------------------
(* Inputs *)

\* command-line tokens of -tl: "20", "25" and the "30h" of the help text
Tok20 == << "2", "0" >>
Tok25 == << "2", "5" >>
Tok30h == << "3", "0", "h" >>
Tokens == { Tok20, Tok25, Tok30h }

\* -tl takes one or more values (nargs="+")
ThreshLists == UNION { [1..n -> Tokens] : n \in 1..MaxSweep }

\* every use of -th / -tl / -wt / --debug, the other options at their defaults
CliArgs ==
    [thresh : { None, Some(20) },
     threshlist : { NoneList } \cup { Some(l) : l \in ThreshLists },
     water_temp : { None, Some(12) },
     start_lat : { None }, end_lat : { None },
     min_buffer : { -40 }, max_buffer : { 5 },
     debug : BOOLEAN]

\* one single-threshold run and one sweep, the other options at their defaults
PlainArgs ==
    [thresh : { None, Some(20) },
     threshlist : { Some(<< Tok20, Tok25 >>) },
     water_temp : { None },
     start_lat : { None }, end_lat : { None },
     min_buffer : { -40 }, max_buffer : { 5 },
     debug : { FALSE }]

\* every use of -slat / -elat, the buffers at their defaults
FilterArgs ==
    [thresh : { None, Some(20) },
     threshlist : { Some(<< Tok20 >>) },
     water_temp : { Some(12) },
     start_lat : { None, Some(10) }, end_lat : { None, Some(30) },
     min_buffer : { -40 }, max_buffer : { 5 },
     debug : { FALSE }]

\* a column of n values, the i-th being base + i
Col(base, n) == [i \in 1..n |-> base + i]

\* seven arrays of independent lengths; position i of a column holds a value
\* that names the column and i.  The photon arrays are not empty (line 83
\* reads latitude[0] and longitude[0]); the geometry arrays may be.
LengthTracks ==
    { [lat |-> Col(10, a), lon |-> Col(20, b), h |-> Col(-10, c),
       conf |-> Col(1, d), elev |-> Col(40, e), azi |-> Col(50, f),
       alt |-> Col(60, g)] :
        a \in 1..MaxLen, b \in 1..MaxLen, c \in 1..MaxLen, d \in 1..MaxLen,
        e \in 0..MaxLen, f \in 0..MaxLen, g \in 0..MaxLen }

\* photons on and around every bound of the filter
Photons == [lat : { 10, 20, 30 }, h : { -40, 0, 5 }, conf : { 0, 1, 2 }]
PhotonLists == UNION { [1..n -> Photons] : n \in 1..MaxRows }

\* a track whose seven arrays all have the length of the photon list
TrackOf(ps) ==
    [lat |-> [i \in 1..Len(ps) |-> ps[i].lat], lon |-> Col(20, Len(ps)),
     h |-> [i \in 1..Len(ps) |-> ps[i].h],
     conf |-> [i \in 1..Len(ps) |-> ps[i].conf],
     elev |-> Col(40, Len(ps)), azi |-> Col(50, Len(ps)),
     alt |-> Col(60, Len(ps))]

FilterTracks == { TrackOf(ps) : ps \in PhotonLists }

\* two photons that pass the default filter, one below and one above 0
PlainTracks ==
    { TrackOf(<< [lat |-> 10, h |-> -4, conf |-> 2],
                 [lat |-> 20, h |-> 4, conf |-> 3] >>) }

InitWith(A, T) ==
    /\ args \in A
    /\ track \in T
    /\ pc = "main"
    /\ lat_utm = << >> /\ lon_utm = << >> /\ photon_h = << >> /\ conf = << >>
    /\ ph_ref_elev = << >> /\ ph_ref_azimuth = << >> /\ ph_sat_alt = << >>
    /\ dataset_sea = << >> /\ dataset_sea1 = << >>
    /\ sea_height = << >> /\ med_water_surface_h = NaN
    /\ water_temp = None /\ lookup = "not called"
    /\ ref_z = << >> /\ depth = << >> /\ refr_call = << >>
    /\ binned_data = [rows |-> 0, pass |-> 0]
    /\ idx = 1
    /\ stages = << >> /\ classified = << >> /\ figures = << >>
    /\ exc = ""
    /\ out = [banner |-> FALSE, summary |-> FALSE, trace |-> FALSE]

\* the command line: every combination of the options, one track
Init == InitWith(CliArgs, PlainTracks)
Spec == Init /\ [][Next]_vars

\* the length checks: every combination of array lengths
InitLengths == InitWith(PlainArgs, LengthTracks)
SpecLengths == InitLengths /\ [][Next]_vars

\* the filter: every short table, every combination of latitude bounds
InitFilter == InitWith(FilterArgs, FilterTracks)
SpecFilter == InitFilter /\ [][Next]_vars

----------------------------------------------------------------------------
(* Properties *)

Prefix(s, k) == [i \in 1..k |-> s[i]]

PhotonLens(t) == { Len(t.lat), Len(t.lon), Len(t.h), Len(t.conf) }
GeometryLens(t) == { Len(t.elev), Len(t.azi), Len(t.alt) }

\* the four photon arrays agree in length, and so do the three geometry arrays
Consistent(t) == Cardinality(PhotonLens(t)) = 1 /\ Cardinality(GeometryLens(t)) = 1

CheckMessages ==
    { "lat_utm, lon_utm and conf_len must have same length",
      "ph_ref_elev, ph_ref_azimuth and ph_sat_alt must have same length" }

\* C1: for a photon table of length m and a geometry table of length n, each
\* internally consistent, reconciliation raises nothing and leaves each of the
\* seven arrays equal to the first min(m, n) elements of its input, in order;
\* when m = n every array is its input.
C1_Reconciled ==
    Consistent(track) =>
        /\ exc \notin CheckMessages
        /\ pc = "assemble" =>
             LET m == Len(track.lat)
                 n == Len(track.elev)
                 k == IF m < n THEN m ELSE n
             IN  /\ lat_utm = Prefix(track.lat, k)
                 /\ lon_utm = Prefix(track.lon, k)
                 /\ photon_h = Prefix(track.h, k)
                 /\ conf = Prefix(track.conf, k)
                 /\ ph_ref_elev = Prefix(track.elev, k)
                 /\ ph_ref_azimuth = Prefix(track.azi, k)
                 /\ ph_sat_alt = Prefix(track.alt, k)
                 /\ m = n => /\ << lat_utm, lon_utm, photon_h, conf >>
                                  = << track.lat, track.lon, track.h, track.conf >>
                             /\ << ph_ref_elev, ph_ref_azimuth, ph_sat_alt >>
                                  = << track.elev, track.azi, track.alt >>

\* a longer photon table has been cut to the length of the geometry table
C1_Witness ==
    /\ pc = "assemble"
    /\ Consistent(track)
    /\ Len(track.lat) = 2 /\ Len(track.elev) = 1
    /\ lat_utm = << track.lat[1] >>
    /\ Len(ph_ref_elev) = 1

\* C2: whenever the four photon arrays do not all have one length, or the
\* three geometry arrays do not, run_cshelph raises at the length checks, so
\* the step that assembles the table is never reached.
C2_ValidationRaises ==
    pc = "assemble" => Consistent(track)

\* C9: whenever the length checks and the reconciliation are passed without
\* an exception, the seven arrays handed to the table have one length.
C9_SameLengthAtAssembly ==
    pc = "assemble" =>
        SameLength(<< lat_utm, lon_utm, photon_h, conf, ph_ref_elev,
                      ph_ref_azimuth, ph_sat_alt >>)

Sweeping == (~args.thresh.some) /\ args.threshlist.some

\* C3: in a sweep, a failure while processing one threshold does not end the
\* sweep: when a run that reached the sweep (all eight stages before it are
\* done) is over, every other threshold of the list that is an integer has
\* been classified and handed to the output step.
C3_SweepIsolated ==
    (pc = "returned" /\ Sweeping /\ Len(stages) >= 8) =>
        \A i \in 1..Len(args.threshlist.v) :
            (i # idx /\ IsIntToken(args.threshlist.v[i])) =>
                /\ \E j \in 1..Len(classified) :
                       classified[j].thresh = IntOf(args.threshlist.v[i])
                /\ \E j \in 1..Len(figures) :
                       figures[j] = IntOf(args.threshlist.v[i])

\* C4: when no water temperature is given and the lookup raises, 20 is used
\* and the run goes on to refraction correction, which receives 20; no
\* exception of the lookup ends the run; a temperature given by the caller
\* reaches refraction correction unchanged and the lookup is not called.
C4_WaterTemp ==
    /\ lookup = "raised" =>
          /\ ~args.water_temp.some
          /\ water_temp = Some(20)
          /\ exc # "get_water_temp"
          /\ pc \notin { "get_water_temp", "main", "uncaught" }
          /\ \A i \in 1..Len(refr_call) : refr_call[i].water_temp = 20
    /\ args.water_temp.some =>
          /\ lookup = "not called"
          /\ \A i \in 1..Len(refr_call) :
                 refr_call[i].water_temp = args.water_temp.v

\* the lookup raised and refraction correction ran with 20 degrees
C4_Witness ==
    /\ lookup = "raised"
    /\ Len(refr_call) = 1
    /\ refr_call[1].water_temp = 20
    /\ "REFRACTION-CORRECTED" = stages[Len(stages)]

\* C5: an invocation with neither -th nor -tl, or with both, is rejected
\* before any stage runs; an invocation with exactly one of them that
\* completes has classified exactly the thresholds supplied, in order.
C5_ExactlyOneThreshold ==
    /\ (args.thresh.some <=> args.threshlist.some) =>
          /\ pc \in { "main", "uncaught" }
          /\ stages = << >>
    /\ (pc = "returned" /\ exc = "" /\ args.thresh.some /\ ~args.threshlist.some) =>
          figures = << args.thresh.v >>
    /\ (pc = "returned" /\ exc = "" /\ Sweeping) =>
          figures = [i \in 1..Len(args.threshlist.v) |->
                        IntOf(args.threshlist.v[i])]

Finished == pc \in { "returned", "uncaught" }

\* C6: every exception of a command-line run, an input validation error or
\* an exception of a stage, is caught by main, which prints the summary,
\* prints the trace exactly in debug mode, and returns normally.
C6_EveryErrorCaught ==
    (Finished /\ exc # "") =>
        /\ pc = "returned"
        /\ out.summary
        /\ out.trace <=> args.debug

StageOrder ==
    << "INGESTED", "GEOMETRY-INTERPOLATED", "RECONCILED", "FILTERED",
       "SEA-BINNED", "SURFACE-ESTIMATED", "REFRACTION-CORRECTED",
       "BATHY-BINNED" >>

\* C7: the stages completed are always an initial part of the fixed order,
\* followed only by CLASSIFIED, once per threshold; refraction correction
\* and the bathymetric binning are done at most once, and every
\* classification reads the one binned table and the sea-surface estimate
\* that refraction correction used; a sweep that completes has classified
\* each threshold of the list once.
C7_LinearStages ==
    /\ \A i \in 1..Len(stages) :
          stages[i] = IF i <= 8 THEN StageOrder[i] ELSE "CLASSIFIED"
    /\ Len(refr_call) <= 1
    /\ binned_data.pass <= 1
    /\ Len(figures) = (IF Len(stages) > 8 THEN Len(stages) - 8 ELSE 0)
    /\ \A j \in 1..Len(classified) :
          /\ Len(stages) >= 8
          /\ Len(refr_call) = 1
          /\ classified[j].binned_data = [rows |-> Len(ref_z), pass |-> 1]
          /\ classified[j].water_surface = refr_call[1].water_surface
          /\ classified[j].water_surface = nanmedian(sea_height)
    /\ (pc = "returned" /\ exc = "" /\ Sweeping) =>
          Len(classified) = Len(args.threshlist.v)

\* a sweep of two thresholds has completed
C7_Witness ==
    /\ pc = "returned" /\ exc = ""
    /\ Sweeping
    /\ Len(classified) = 2
    /\ Len(stages) = 10

NoCandidates == \A i \in 1..Len(sea_height) : sea_height[i].nan

\* C8: when the estimator has returned no candidate that is a number, the
\* sea-surface estimate is NaN, the run has not raised at that stage, and
\* after refraction correction every photon of the filtered table has a
\* depth, which is NaN.
C8_MissingSurface ==
    (Len(stages) >= 6 /\ NoCandidates) =>
        /\ med_water_surface_h.nan
        /\ pc \notin { "get_sea_height", "sea_bin" }
        /\ exc # "get_sea_height"
        /\ Len(stages) >= 7 =>
              /\ Len(depth) = Len(dataset_sea1)
              /\ \A i \in 1..Len(depth) : depth[i].nan

\* the only candidate was NaN and two photons got a NaN depth
C8_Witness ==
    /\ sea_height = << NaN >>
    /\ Len(stages) >= 7
    /\ Len(depth) = 2
    /\ depth[1].nan /\ depth[2].nan

InRange(row) ==
    /\ row.confidence # 0 /\ row.confidence # 1
    /\ row.photon_height > args.min_buffer
    /\ row.photon_height < args.max_buffer
    /\ args.start_lat.some => row.latitude > args.start_lat.v
    /\ args.end_lat.some => row.latitude < args.end_lat.v

RECURSIVE Kept(_)
Kept(t) == IF t = << >> THEN << >>
           ELSE (IF InRange(t[1]) THEN << t[1] >> ELSE << >>) \o Kept(Tail(t))

\* C10: the filtered table holds exactly the rows of the assembled table, in
\* order, whose confidence is neither 0 nor 1, whose height is strictly
\* between min_buffer and max_buffer, and whose latitude is strictly inside
\* each latitude bound that was given, also when only one bound was given;
\* the assembled table is left as it was.
C10_Filtered ==
    Len(stages) >= 4 =>
        /\ dataset_sea1 = Kept(dataset_sea)
        /\ dataset_sea = Assemble(lat_utm, lon_utm, photon_h, conf,
                                  ph_ref_elev, ph_ref_azimuth, ph_sat_alt)

====
